---- MODULE Spec2Model ----
(***************************************************************************)
(* Model of the VASP post-processing scripts get_band_calc.py (band-gap    *)
(* parser and its OUTCAR locator) and get_fermi.py (sp-directory locator). *)
(*                                                                         *)
(* Numbers.  Energies and occupations are decimal literals of the file.    *)
(* They are kept as fixed-point integers in units of 10^-5, so that the    *)
(* "%.4f" formatting of the report is a real rounding step.  The inputs    *)
(* never sit on a rounding tie, and for such values the binary float       *)
(* arithmetic of the script rounds to the same 4 decimals as the exact     *)
(* arithmetic used here.                                                   *)
(*                                                                         *)
(* Lines.  A line of the file is the sequence of its lexical tokens; the   *)
(* two regular expressions of parse_outcar are matchers over that          *)
(* sequence.                                                               *)
(***************************************************************************)
EXTENDS Integers, Sequences, FiniteSets, TLC

\* ------------------------------------------------------------------ bounds
\* number of lines of the OUTCAR file
MaxLines == 6
\* k-point ids that occur in header lines: 1..MaxK
MaxK == 2
\* number of lines of an OUTCAR file read by extract_fermi_energy
MaxFermiLines == 3
\* number of lines typed at the prompt of get_fermi.main
MaxQueries == 2
\* number of entries os.listdir gives the batch run of get_band_calc
MaxItems == 2

\* --------------------------------------------------------------- optionals
\* Python's None and a present value
None == <<>>
Some(x) == <<x>>
Val(o) == o[1]

\* ------------------------------------------------------------------ tokens
KW == [t |-> "k-point", neg |-> FALSE, mag |-> 0]
Colon == [t |-> ":", neg |-> FALSE, mag |-> 0]
Word == [t |-> "word", neg |-> FALSE, mag |-> 0]
\* an integer literal: digits with an optional leading minus sign
IntTok(neg, mag) == [t |-> "int", neg |-> neg, mag |-> mag]
\* a decimal literal  -?\d+\.\d+ ; mag is the digits read in units of 10^-5
DecTok(neg, mag) == [t |-> "dec", neg |-> neg, mag |-> mag]

\* the decimal literals the files are built from
EnergyToks ==
    { DecTok(TRUE, 512340), DecTok(TRUE, 512344),
      DecTok(FALSE, 87650), DecTok(FALSE, 87654) }
\* 1.00000, 2.00000, 0.00000, -0.00000 and -0.03000 (smearing can give a
\* slightly negative occupation)
OccupationToks ==
    { DecTok(FALSE, 100000), DecTok(FALSE, 200000), DecTok(FALSE, 0),
      DecTok(TRUE, 0), DecTok(TRUE, 3000) }

HeaderLines ==
    { <<KW, IntTok(FALSE, k), Colon>> : k \in 1..MaxK }
    \cup { <<KW, IntTok(FALSE, k), Colon, Word>> : k \in 1..MaxK }
BandLines ==
    { <<IntTok(FALSE, i), e, o>> : i \in 1..2, e \in EnergyToks, o \in OccupationToks }
\* lines that look similar but match neither regular expression
OtherLines ==
    { <<>>,
      <<Word>>,
      <<KW, Colon>>,
      <<Word, KW, IntTok(FALSE, 1), Colon>>,
      <<KW, IntTok(TRUE, 1), Colon>>,
      <<IntTok(FALSE, 1), DecTok(TRUE, 512340), DecTok(FALSE, 100000), Word>>,
      <<IntTok(FALSE, 1), IntTok(FALSE, 5), DecTok(FALSE, 0)>>,
      <<IntTok(TRUE, 1), DecTok(FALSE, 87650), DecTok(FALSE, 0)>>,
      <<DecTok(FALSE, 87650), DecTok(FALSE, 0)>> }
Lines == HeaderLines \cup BandLines \cup OtherLines

\* ------------------------------------------------------- parsing, formatting
\* \d+ : an integer literal without sign
IsDigits(tok) == tok.t = "int" /\ ~tok.neg
IsDecimal(tok) == tok.t = "dec"

\* mutant: re.search in place of re.match, the pattern found anywhere in the line
kpoint_regex_Search(line) ==
    \E i \in 1..Len(line) :
        /\ i + 2 <= Len(line)
        /\ line[i] = KW
        /\ IsDigits(line[i + 1])
        /\ line[i + 2] = Colon

\* kpoint_regex  ^\s*k-point\s+(\d+)\s*:.*
kpoint_regex(line) ==
    /\ Len(line) >= 3
    /\ line[1] = KW
    /\ IsDigits(line[2])
    /\ line[3] = Colon
\* int(kpoint_match.group(1))
KPointId(line) == line[2].mag

\* band_regex  ^\s*\d+\s+(-?\d+\.\d+)\s+(-?\d+\.\d+)\s*$
band_regex(line) ==
    /\ Len(line) = 3
    /\ IsDigits(line[1])
    /\ IsDecimal(line[2])
    /\ IsDecimal(line[3])

\* mutant: the sign of the literal is lost
Float_DropsSign(tok) == tok.mag

\* float(group): the signed value of a decimal literal; -0.00000 is zero
Float(tok) == IF tok.neg THEN 0 - tok.mag ELSE tok.mag

\* f"{x:.4f}": x (units of 10^-5) rounded to the nearest multiple of 10^-4,
\* given in units of 10^-4
Format4(x) == (x + 5) \div 10

RECURSIVE SortedSeq(_)
\* the elements of a finite set of integers in ascending order
SortedSeq(S) ==
    IF S = {} THEN <<>>
    ELSE LET m == CHOOSE x \in S : \A y \in S : x <= y
         IN <<m>> \o SortedSeq(S \ {m})

\* ------------------------------------------------------------------- state
VARIABLES
    pc,              \* position in parse_outcar: "scan", "report", "done"
    nread,           \* number of lines of the file consumed by the for loop
    current_kpoint,  \* None or Some(id)
    kpoint_data,     \* id -> [ref, vbm, cbm]; ref is the identity of the dict
    todo,            \* ids the report loop still has to visit, ascending
    min_band_gap,    \* None stands for float('inf')
    min_gap_data,    \* None or Some([kpoint, vbm, cbm, gap])
    outfile,         \* what was written to the results file, in order
    hist,            \* id -> facts about the band lines of the record's block
    fileinfo,        \* facts about the lines read so far
    layout,          \* the directory tree below a molecule directory
    called,          \* the locator functions that have returned
    outcar_file,     \* result of find_outcar_in_molecule_dir
    sp_directory_path, \* result of find_sp_directory
    session,         \* get_fermi.main: the prompt loop and its last query
    batch            \* get_band_calc.__main__: the run over os.listdir

parserVars ==
    <<pc, nread, current_kpoint, kpoint_data, todo, min_band_gap,
      min_gap_data, outfile, hist, fileinfo>>
locatorVars == <<layout, called, outcar_file, sp_directory_path>>
driverVars == <<session, batch>>
vars == <<parserVars, locatorVars, driverVars>>

\* ------------------------------------------------------ parse_outcar: scan
\* {'vbm': None, 'cbm': None}: a new dict; ref, the ordinal of the header line
\* that made it, stands for its identity
NewRecord(ref) == [ref |-> ref, vbm |-> None, cbm |-> None]

\* if occupation > 0.0
TakesVbmBranch(occupation) == occupation > 0

\* mutant: the "cbm is None" test is missing
TakesCbmBranch_NoCbmGuard(rec, occupation) ==
    /\ occupation = 0
    /\ rec.vbm # None

\* mutant: the "vbm is not None" test is missing
TakesCbmBranch_NoVbmGuard(rec, occupation) ==
    /\ occupation = 0
    /\ rec.cbm = None

\* elif occupation == 0.0 and ['vbm'] is not None and ['cbm'] is None
TakesCbmBranch(rec, occupation) ==
    /\ occupation = 0
    /\ rec.vbm # None
    /\ rec.cbm = None

\* mutant: the first positive-occupation line wins, later ones are ignored
BandUpdate_FirstOccupiedWins(rec, energy, occupation) ==
    IF TakesVbmBranch(occupation)
    THEN (IF rec.vbm = None THEN [rec EXCEPT !.vbm = Some(energy)] ELSE rec)
    ELSE IF TakesCbmBranch(rec, occupation) THEN [rec EXCEPT !.cbm = Some(energy)]
    ELSE rec

\* mutant: every zero-occupation line after a VBM overwrites the CBM
BandUpdate_LastZeroWins(rec, energy, occupation) ==
    IF TakesVbmBranch(occupation) THEN [rec EXCEPT !.vbm = Some(energy)]
    ELSE IF occupation = 0 /\ rec.vbm # None THEN [rec EXCEPT !.cbm = Some(energy)]
    ELSE rec

\* the effect of one band line on the record of the current k-point
BandUpdate(rec, energy, occupation) ==
    IF TakesVbmBranch(occupation) THEN [rec EXCEPT !.vbm = Some(energy)]
    ELSE IF TakesCbmBranch(rec, occupation) THEN [rec EXCEPT !.cbm = Some(energy)]
    ELSE rec

\* mutant: setdefault, a record that exists is kept when its header repeats
SetItem_KeepExisting(f, k, v) ==
    [x \in DOMAIN f \cup {k} |-> IF x \in DOMAIN f THEN f[x] ELSE v]

\* kpoint_data[current_kpoint] = value
SetItem(f, k, v) == [x \in DOMAIN f \cup {k} |-> IF x = k THEN v ELSE f[x]]

\* -- observation of the input (not program state) --
\* The lines are classified here by what they are in the file, without the
\* script's regular expressions and without its float().
IsHeaderLine(line) == line \in HeaderLines
IsBandLine(line) == line \in BandLines
Positive(tok) == tok.mag > 0 /\ ~tok.neg
Zero(tok) == tok.mag = 0
Energy(tok) == IF tok.neg THEN 0 - tok.mag ELSE tok.mag

\* the block of a record: the band lines read while the record is current
EmptyBlock ==
    [nPos |-> 0, lastPos |-> None, zeroAfterPos |-> None, laterZero |-> None,
     zeroBeforePos |-> FALSE, posAfterZero |-> FALSE, nonPos |-> FALSE,
     vbmWrites |-> 0, cbmWrites |-> 0]

\* one more band line in block b; rec is the record before the line was
\* handled, and the two counters count the assignments the script makes
BlockAppend(b, rec, line) ==
    LET e == Energy(line[2])
        pos == Positive(line[3])
        zero == Zero(line[3])
    IN [nPos |-> IF pos THEN b.nPos + 1 ELSE b.nPos,
        lastPos |-> IF pos THEN Some(e) ELSE b.lastPos,
        zeroAfterPos |->
           IF zero /\ b.nPos > 0 /\ b.zeroAfterPos = None
           THEN Some(e) ELSE b.zeroAfterPos,
        laterZero |->
           IF zero /\ b.zeroAfterPos # None THEN Some(e) ELSE b.laterZero,
        zeroBeforePos |-> b.zeroBeforePos \/ (zero /\ b.nPos = 0),
        posAfterZero |-> b.posAfterZero \/ (pos /\ b.zeroAfterPos # None),
        nonPos |-> b.nonPos \/ ~pos,
        vbmWrites |->
           IF TakesVbmBranch(Float(line[3])) THEN b.vbmWrites + 1 ELSE b.vbmWrites,
        cbmWrites |->
           IF /\ ~TakesVbmBranch(Float(line[3]))
              /\ TakesCbmBranch(rec, Float(line[3]))
           THEN b.cbmWrites + 1 ELSE b.cbmWrites]

\* the three lines of the documented example
ExampleFile ==
    << <<KW, IntTok(FALSE, 1), Colon, Word>>,
       <<IntTok(FALSE, 1), DecTok(TRUE, 512340), DecTok(FALSE, 100000)>>,
       <<IntTok(FALSE, 2), DecTok(FALSE, 87650), DecTok(FALSE, 0)>> >>

NoLines ==
    [headers |-> 0, lastId |-> None, bandsBeforeHeader |-> 0, isExample |-> TRUE]

\* line number n + 1 of the file has been read
LineSeen(info, n, line) ==
    [headers |-> IF IsHeaderLine(line) THEN info.headers + 1 ELSE info.headers,
     lastId |-> IF IsHeaderLine(line) THEN Some(line[2].mag) ELSE info.lastId,
     bandsBeforeHeader |->
        IF info.headers = 0 /\ IsBandLine(line)
        THEN info.bandsBeforeHeader + 1 ELSE info.bandsBeforeHeader,
     isExample |->
        /\ info.isExample
        /\ n < Len(ExampleFile)
        /\ line = ExampleFile[n + 1]]

\* a header line opens a new block for its id, a band line extends the block
\* of the id of the last header line
HistAfter(h, info, cur, kd, line) ==
    IF IsHeaderLine(line)
    THEN [x \in DOMAIN h \cup {line[2].mag} |->
             IF x = line[2].mag THEN EmptyBlock ELSE h[x]]
    ELSE IF IsBandLine(line) /\ info.headers > 0
    THEN [h EXCEPT ![Val(cur)] = BlockAppend(@, kd[Val(cur)], line)]
    ELSE h

\* mutant: one dict object is shared by all k-points, so a band line shows
\* in every record
ScanLine_SharedRecord(line) ==
    /\ pc = "scan"
    /\ nread < MaxLines
    /\ nread' = nread + 1
    /\ fileinfo' = LineSeen(fileinfo, nread, line)
    /\ hist' = HistAfter(hist, fileinfo, current_kpoint, kpoint_data, line)
    /\ IF kpoint_regex(line)
       THEN /\ current_kpoint' = Some(KPointId(line))
            /\ kpoint_data' = SetItem(kpoint_data, KPointId(line), NewRecord(fileinfo.headers + 1))
       ELSE IF current_kpoint # None /\ band_regex(line)
       THEN /\ kpoint_data' =
                 [k \in DOMAIN kpoint_data |->
                    BandUpdate(kpoint_data[k], Float(line[2]), Float(line[3]))]
            /\ UNCHANGED current_kpoint
       ELSE UNCHANGED <<current_kpoint, kpoint_data>>
    /\ UNCHANGED <<pc, todo, min_band_gap, min_gap_data, outfile, locatorVars>>

\* one iteration of "for line in lines"
ScanLine(line) ==
    /\ pc = "scan"
    /\ nread < MaxLines
    /\ nread' = nread + 1
    /\ fileinfo' = LineSeen(fileinfo, nread, line)
    /\ hist' = HistAfter(hist, fileinfo, current_kpoint, kpoint_data, line)
    /\ IF kpoint_regex(line)
       THEN /\ current_kpoint' = Some(KPointId(line))
            /\ kpoint_data' = SetItem(kpoint_data, KPointId(line), NewRecord(fileinfo.headers + 1))
       ELSE IF current_kpoint # None /\ band_regex(line)
       THEN /\ kpoint_data' =
                 [kpoint_data EXCEPT
                    ![Val(current_kpoint)] = BandUpdate(@, Float(line[2]), Float(line[3]))]
            /\ UNCHANGED current_kpoint
       ELSE UNCHANGED <<current_kpoint, kpoint_data>>
    /\ UNCHANGED <<pc, todo, min_band_gap, min_gap_data, outfile, locatorVars>>

\* ---------------------------------------------------- parse_outcar: report
Entry(tag, kpoint, vbm, cbm, gap) ==
    [tag |-> tag, kpoint |-> kpoint, vbm |-> vbm, cbm |-> cbm, gap |-> gap]
NoDataMsg == Entry("No k-point data was extracted", 0, 0, 0, 0)
ResultsHeader == Entry("Results (All K-Points)", 0, 0, 0, 0)
NoValidGapMsg == Entry("No valid band gap could be calculated", 0, 0, 0, 0)
IncompleteMsg(kpoint) == Entry("Incomplete data", kpoint, 0, 0, 0)
KPointMsg(kpoint, vbm, cbm, gap) ==
    Entry("K-Point", kpoint, Format4(vbm), Format4(cbm), Format4(gap))
SummaryMsg(d) ==
    Entry("Minimum Band Gap found at K-Point", d.kpoint,
          Format4(d.vbm), Format4(d.cbm), Format4(d.gap))

\* if not kpoint_data
NoData(kd) == DOMAIN kd = {}

\* if vbm is not None and cbm is not None
Complete(values) == values.vbm # None /\ values.cbm # None

\* mutant: the operands are swapped
BandGap_Swapped(vbm, cbm) == vbm - cbm

\* band_gap = cbm - vbm
BandGap(vbm, cbm) == cbm - vbm

\* mutant: <= in place of <, the last of several least gaps wins
IsNewMinimum_OrEqual(band_gap, min) == min = None \/ band_gap <= Val(min)

\* if band_gap < min_band_gap   (min_band_gap starts as float('inf'))
IsNewMinimum(band_gap, min) == min = None \/ band_gap < Val(min)

\* the end of the for loop over the lines
EndScan ==
    /\ pc = "scan"
    /\ IF NoData(kpoint_data)
       THEN /\ outfile' = Append(outfile, NoDataMsg)
            /\ pc' = "done"
            /\ UNCHANGED <<todo, min_band_gap, min_gap_data>>
       ELSE /\ outfile' = Append(outfile, ResultsHeader)
            /\ min_band_gap' = None
            /\ min_gap_data' = None
            /\ todo' = SortedSeq(DOMAIN kpoint_data)
            /\ pc' = "report"
    /\ UNCHANGED <<nread, current_kpoint, kpoint_data, hist, fileinfo, locatorVars>>

\* one iteration of "for kpoint, values in sorted(kpoint_data.items())"
ReportKPoint ==
    /\ pc = "report"
    /\ todo # <<>>
    /\ LET kpoint == Head(todo)
           values == kpoint_data[kpoint]
       IN IF Complete(values)
          THEN LET vbm == Val(values.vbm)
                   cbm == Val(values.cbm)
                   band_gap == BandGap(vbm, cbm)
               IN /\ outfile' = Append(outfile, KPointMsg(kpoint, vbm, cbm, band_gap))
                  /\ IF IsNewMinimum(band_gap, min_band_gap)
                     THEN /\ min_band_gap' = Some(band_gap)
                          /\ min_gap_data' =
                                Some([kpoint |-> kpoint, vbm |-> vbm,
                                      cbm |-> cbm, gap |-> band_gap])
                     ELSE UNCHANGED <<min_band_gap, min_gap_data>>
          ELSE /\ outfile' = Append(outfile, IncompleteMsg(kpoint))
               /\ UNCHANGED <<min_band_gap, min_gap_data>>
    /\ todo' = Tail(todo)
    /\ UNCHANGED <<pc, nread, current_kpoint, kpoint_data, hist, fileinfo, locatorVars>>

\* the summary section
WriteSummary ==
    /\ pc = "report"
    /\ todo = <<>>
    /\ outfile' =
          Append(outfile,
                 IF min_gap_data # None THEN SummaryMsg(Val(min_gap_data))
                 ELSE NoValidGapMsg)
    /\ pc' = "done"
    /\ UNCHANGED <<nread, current_kpoint, kpoint_data, todo, min_band_gap,
                   min_gap_data, hist, fileinfo, locatorVars>>

\* ---------------------------------------------------------- file locators
Paths ==
    { <<"sp">>, <<"sp", "OUTCAR">>, <<"restart">>, <<"restart", "sp">>,
      <<"restart", "sp", "OUTCAR">> }
Parent(p) == SubSeq(p, 1, Len(p) - 1)
\* the trees below a molecule directory: an entry exists only inside a directory
Layouts ==
    { l \in [Paths -> {"absent", "file", "dir"}] :
        \A p \in Paths : Len(p) > 1 /\ l[p] # "absent" => l[Parent(p)] = "dir" }
EmptyLayout == [p \in Paths |-> "absent"]

\* os.path.join(a, name), os.path.isdir, os.path.isfile
Join(p, name) == Append(p, name)
IsDir(l, p) == l[p] = "dir"
IsFile(l, p) == l[p] = "file"

\* mutant: an sp directory without OUTCAR ends the search
find_outcar_in_molecule_dir_NoFallThrough(l) ==
    IF IsDir(l, <<"sp">>)
    THEN (IF IsFile(l, <<"sp", "OUTCAR">>) THEN Some(<<"sp", "OUTCAR">>) ELSE None)
    ELSE IF /\ IsDir(l, <<"restart">>)
            /\ IsDir(l, <<"restart", "sp">>)
            /\ IsFile(l, <<"restart", "sp", "OUTCAR">>)
    THEN Some(<<"restart", "sp", "OUTCAR">>)
    ELSE None

\* get_band_calc.find_outcar_in_molecule_dir, relative to molecule_dir
find_outcar_in_molecule_dir(l) ==
    LET sp_dir == Join(<<>>, "sp")
        restart_dir == Join(<<>>, "restart")
        sp_dir_in_restart == Join(restart_dir, "sp")
    IN IF IsDir(l, sp_dir) /\ IsFile(l, Join(sp_dir, "OUTCAR"))
       THEN Some(Join(sp_dir, "OUTCAR"))
       ELSE IF /\ IsDir(l, restart_dir)
               /\ IsDir(l, sp_dir_in_restart)
               /\ IsFile(l, Join(sp_dir_in_restart, "OUTCAR"))
       THEN Some(Join(sp_dir_in_restart, "OUTCAR"))
       ELSE None

\* get_fermi.find_sp_directory, relative to base_path
find_sp_directory(l) ==
    LET direct_sp_path == Join(<<>>, "sp")
        restart_path == Join(<<>>, "restart")
        restart_sp_path == Join(restart_path, "sp")
    IN IF IsDir(l, direct_sp_path) THEN Some(direct_sp_path)
       ELSE IF IsDir(l, restart_path) /\ IsDir(l, restart_sp_path)
       THEN Some(restart_sp_path)
       ELSE None

\* outcar_file = find_outcar_in_molecule_dir(potential_molecule_dir)
CallFindOutcar ==
    /\ layout \in Layouts
    /\ "find_outcar_in_molecule_dir" \notin called
    /\ outcar_file' = find_outcar_in_molecule_dir(layout)
    /\ called' = called \cup {"find_outcar_in_molecule_dir"}
    /\ UNCHANGED <<layout, sp_directory_path, parserVars>>

\* sp_directory_path = find_sp_directory(full_target_path)
CallFindSp ==
    /\ layout \in Layouts
    /\ "find_sp_directory" \notin called
    /\ sp_directory_path' = find_sp_directory(layout)
    /\ called' = called \cup {"find_sp_directory"}
    /\ UNCHANGED <<layout, outcar_file, parserVars>>

\* ------------------------------------------------ get_fermi: the extractor
\* tokens of the lines extract_fermi_energy looks at: the marker as a word
\* of its own, and the marker with the colon glued to it ("E-fermi:")
EFermi == [t |-> "E-fermi", neg |-> FALSE, mag |-> 0]
EFermiGlued == [t |-> "E-fermi:", neg |-> FALSE, mag |-> 0]

\* " E-fermi :  -1.2406   XC(G=0): ..."
FermiExampleLine == <<EFermi, Colon, DecTok(TRUE, 124060), Word>>
\* lines from which a value can be read: -1.2406, 0.0000 and 3
FermiZeroLine == <<EFermi, Colon, DecTok(FALSE, 0)>>
FermiIntLine == <<EFermi, Colon, IntTok(FALSE, 3)>>
GoodFermiLines == { FermiExampleLine, FermiZeroLine, FermiIntLine }
\* lines with the marker from which no value can be read: no standalone
\* colon, nothing after the colon, a first colon followed by a word
BadFermiLines ==
    { <<EFermiGlued, DecTok(TRUE, 124060)>>,
      <<EFermi, Colon>>,
      <<Word, Colon, Word, EFermi, Colon, DecTok(TRUE, 124060)>> }
\* a line without the marker
PlainLines == { <<Word, Colon, DecTok(FALSE, 55000)>> }
FermiLines == GoodFermiLines \cup BadFermiLines \cup PlainLines
FermiFiles == UNION { [1..n -> FermiLines] : n \in 0..MaxFermiLines }

\* what is printed on the console: a text and, for a result line, the value
ConsoleLine(text, value) == [text |-> text, value |-> value]
FileNotFoundLine == ConsoleLine("Error: File 'OUTCAR' not found in sp_path", None)
WarningLine == ConsoleLine("Warning: Could not parse line", None)
ReadErrorLine == ConsoleLine("An error occurred while reading the file", None)
GoodbyeLine == ConsoleLine("Goodbye!", None)
DirNotFoundLine == ConsoleLine("Error: Directory not found", None)
NoSpLine == ConsoleLine("Error: No 'sp' directory found", None)
NoFermiLine == ConsoleLine("Error: Could not extract E-fermi", None)
ResultLine(fermi_energy) == ConsoleLine("target_dir: fermi_energy", fermi_energy)

\* 'E-fermi' in line
ContainsEFermi(line) ==
    \E i \in 1..Len(line) : line[i].t \in {"E-fermi", "E-fermi:"}

\* parts.index(':'): the position of the first ':' token, 0 for ValueError
ColonIndex(parts) ==
    IF \E i \in 1..Len(parts) : parts[i] = Colon
    THEN CHOOSE i \in 1..Len(parts) :
            parts[i] = Colon /\ \A j \in 1..(i - 1) : parts[j] # Colon
    ELSE 0

\* float(s) succeeds on a decimal or integer literal
IsFloatLiteral(tok) == tok.t \in {"dec", "int"}
\* float(s), in units of 10^-5
FloatOf(tok) ==
    LET m == IF tok.t = "int" THEN tok.mag * 100000 ELSE tok.mag
    IN IF tok.neg THEN 0 - m ELSE m

\* the inner try block: Some(value), or None for ValueError / IndexError
ParseFermiLine(line) ==
    LET colon_index == ColonIndex(line)
    IN IF colon_index = 0 THEN None
       ELSE IF colon_index + 1 > Len(line) THEN None
       ELSE IF ~IsFloatLiteral(line[colon_index + 1]) THEN None
       ELSE Some(FloatOf(line[colon_index + 1]))

\* what extract_fermi_energy gives back, and what it printed on the way
Extracted(value, printed) == [value |-> value, printed |-> printed]

RECURSIVE ScanFermi_LastWins(_, _)
\* mutant: no return at the first value, the last line with a value wins
ScanFermi_LastWins(lines, printed) ==
    IF lines = <<>> THEN Extracted(None, printed)
    ELSE LET rest == ScanFermi_LastWins(Tail(lines), printed)
         IN IF rest.value # None THEN rest
            ELSE IF ContainsEFermi(Head(lines)) /\ ParseFermiLine(Head(lines)) # None
            THEN Extracted(ParseFermiLine(Head(lines)), printed)
            ELSE rest

\* mutant: a line that cannot be parsed ends the scan
ScanFermi_StopsAtBadLine(lines, printed) ==
    LET marked == { i \in 1..Len(lines) : ContainsEFermi(lines[i]) }
        first == CHOOSE i \in marked : \A j \in marked : i <= j
    IN IF marked = {} THEN Extracted(None, printed)
       ELSE IF ParseFermiLine(lines[first]) # None
       THEN Extracted(ParseFermiLine(lines[first]), printed)
       ELSE Extracted(None, Append(printed, WarningLine))

RECURSIVE ScanFermi(_, _)
\* "for line in f" over the lines still to read, after printing printed
ScanFermi(lines, printed) ==
    IF lines = <<>> THEN Extracted(None, printed)
    ELSE IF ContainsEFermi(Head(lines))
    THEN IF ParseFermiLine(Head(lines)) # None
         THEN Extracted(ParseFermiLine(Head(lines)), printed)
         ELSE ScanFermi(Tail(lines), Append(printed, WarningLine))
    ELSE ScanFermi(Tail(lines), printed)

\* the directory a query or a batch item points at: whether it is a
\* directory, the tree below it, the exception that opening or reading
\* OUTCAR raises ("" for none), and the lines of the OUTCAR file(s) in it
World(isdir, l, raises, lines) ==
    [isdir |-> isdir, layout |-> l, raises |-> raises, lines |-> lines]
HasOutcar(l) ==
    l[<<"sp", "OUTCAR">>] = "file" \/ l[<<"restart", "sp", "OUTCAR">>] = "file"
NoWorld == World(FALSE, EmptyLayout, "", <<>>)
FermiWorlds ==
    { NoWorld }
    \cup { World(TRUE, l, "", <<>>) : l \in { x \in Layouts : ~HasOutcar(x) } }
    \cup { World(TRUE, l, "OSError", <<>>) : l \in { x \in Layouts : HasOutcar(x) } }
    \cup { World(TRUE, l, "", f) :
             l \in { x \in Layouts : HasOutcar(x) }, f \in FermiFiles }

\* extract_fermi_energy(sp_path, filename="OUTCAR")
extract_fermi_energy(sp_path, w) ==
    LET file_path == Join(sp_path, "OUTCAR")
    IN IF ~IsFile(w.layout, file_path)
       THEN Extracted(None, <<FileNotFoundLine>>)
       ELSE IF w.raises # "" THEN Extracted(None, <<ReadErrorLine>>)
       ELSE ScanFermi(w.lines, <<>>)

\* ---------------------------------------------------- get_fermi: main loop
\* what is typed at the prompt
Inputs == { "quit", "QUIT", "Quit", "quit ", "molecule", "missing" }
\* str.lower() on these inputs
Lower(str) == IF str \in {"QUIT", "Quit"} THEN "quit" ELSE str

\* one pass through the body of "while True": whether the loop is left, what
\* is printed, whether the extractor was called and what it returned
Pass(exit, printed, extractor, value) ==
    [exit |-> exit, printed |-> printed, extractor |-> extractor, value |-> value]

\* mutant: no line is printed for a name that is not a directory
MainBody_SilentOnMissingDir(target_dir, w) ==
    IF Lower(target_dir) = "quit" THEN Pass(TRUE, <<GoodbyeLine>>, FALSE, None)
    ELSE IF ~w.isdir THEN Pass(FALSE, <<>>, FALSE, None)
    ELSE IF find_sp_directory(w.layout) = None
    THEN Pass(FALSE, <<NoSpLine>>, FALSE, None)
    ELSE LET got == extract_fermi_energy(Val(find_sp_directory(w.layout)), w)
         IN IF got.value # None
            THEN Pass(FALSE, Append(got.printed, ResultLine(got.value)), TRUE, got.value)
            ELSE Pass(FALSE, Append(got.printed, NoFermiLine), TRUE, got.value)

\* mutant: a query that fails leaves the loop
MainBody_BreakOnFailure(target_dir, w) ==
    IF Lower(target_dir) = "quit" THEN Pass(TRUE, <<GoodbyeLine>>, FALSE, None)
    ELSE IF ~w.isdir THEN Pass(TRUE, <<DirNotFoundLine>>, FALSE, None)
    ELSE IF find_sp_directory(w.layout) = None
    THEN Pass(TRUE, <<NoSpLine>>, FALSE, None)
    ELSE LET got == extract_fermi_energy(Val(find_sp_directory(w.layout)), w)
         IN IF got.value # None
            THEN Pass(FALSE, Append(got.printed, ResultLine(got.value)), TRUE, got.value)
            ELSE Pass(TRUE, Append(got.printed, NoFermiLine), TRUE, got.value)

\* the body of "while True" for one input line
MainBody(target_dir, w) ==
    IF Lower(target_dir) = "quit" THEN Pass(TRUE, <<GoodbyeLine>>, FALSE, None)
    ELSE IF ~w.isdir THEN Pass(FALSE, <<DirNotFoundLine>>, FALSE, None)
    ELSE IF find_sp_directory(w.layout) = None
    THEN Pass(FALSE, <<NoSpLine>>, FALSE, None)
    ELSE LET got == extract_fermi_energy(Val(find_sp_directory(w.layout)), w)
         IN IF got.value # None
            THEN Pass(FALSE, Append(got.printed, ResultLine(got.value)), TRUE, got.value)
            ELSE Pass(FALSE, Append(got.printed, NoFermiLine), TRUE, got.value)

\* os.path.join(current_directory, target_dir) in the working directory,
\* whose only entry is "molecule"
Lookup(cwd, target_dir) == IF target_dir = "molecule" THEN cwd ELSE NoWorld

SessionOff ==
    [pc |-> "off", queries |-> 0, input |-> "", cwd |-> NoWorld,
     last |-> Pass(FALSE, <<>>, FALSE, None)]
SessionStart(cwd) == [SessionOff EXCEPT !.pc = "prompt", !.cwd = cwd]

\* target_dir = input("\n> ") and the pass through the loop body for it
Query(target_dir) ==
    /\ session.pc = "prompt"
    /\ session.queries < MaxQueries
    /\ LET r == MainBody(target_dir, Lookup(session.cwd, target_dir))
       IN session' =
             [session EXCEPT !.pc = IF r.exit THEN "exited" ELSE "prompt",
                             !.queries = session.queries + 1,
                             !.input = target_dir,
                             !.last = r]
    /\ UNCHANGED <<batch, parserVars, locatorVars>>

\* ------------------------------------------- get_band_calc: the batch run
\* OUTCAR files of the molecule directories: a header without band lines,
\* a band line without header, a block without unoccupied band
HeaderOnlyFile == << <<KW, IntTok(FALSE, 1), Colon>> >>
BandOnlyFile == << <<IntTok(FALSE, 1), DecTok(TRUE, 512340), DecTok(FALSE, 100000)>> >>
OccupiedOnlyFile == HeaderOnlyFile \o BandOnlyFile
TwoKPointsFile ==
    ExampleFile
    \o << <<KW, IntTok(FALSE, 2), Colon>>,
          <<IntTok(FALSE, 1), DecTok(TRUE, 512344), DecTok(FALSE, 200000)>>,
          <<IntTok(FALSE, 2), DecTok(FALSE, 87654), DecTok(TRUE, 0)>> >>
BandFiles ==
    { <<>>, HeaderOnlyFile, BandOnlyFile, OccupiedOnlyFile, ExampleFile, TwoKPointsFile }
BatchWorlds ==
    { NoWorld }
    \cup { World(TRUE, l, "", <<>>) : l \in { x \in Layouts : ~HasOutcar(x) } }
    \cup { World(TRUE, l, e, <<>>) :
             l \in { x \in Layouts : HasOutcar(x) }, e \in {"FileNotFoundError", "OSError"} }
    \cup { World(TRUE, l, "", f) :
             l \in { x \in Layouts : HasOutcar(x) }, f \in BandFiles }

SectionHeader == Entry("Results for Molecule Directory", 0, 0, 0, 0)
NoOutcarMsg == Entry("--> No 'sp' directory with an OUTCAR file found", 0, 0, 0, 0)
FileMissingMsg == Entry("Error: The file was not found", 0, 0, 0, 0)
UnexpectedErrorMsg == Entry("An unexpected error occurred", 0, 0, 0, 0)

RECURSIVE ScanFile(_, _, _, _)
\* the for loop over the lines: cur and kd are current_kpoint and
\* kpoint_data, headers the number of header lines read so far
ScanFile(lines, cur, kd, headers) ==
    IF lines = <<>> THEN kd
    ELSE LET line == Head(lines)
         IN IF kpoint_regex(line)
            THEN ScanFile(Tail(lines), Some(KPointId(line)),
                          SetItem(kd, KPointId(line), NewRecord(headers + 1)),
                          headers + 1)
            ELSE IF cur # None /\ band_regex(line)
            THEN ScanFile(Tail(lines), cur,
                          [kd EXCEPT
                             ![Val(cur)] =
                                BandUpdate(@, Float(line[2]), Float(line[3]))],
                          headers)
            ELSE ScanFile(Tail(lines), cur, kd, headers)

RECURSIVE ReportFile(_, _, _, _)
\* the report loop over the k-points still to do, then the summary: least
\* and best are min_band_gap and min_gap_data
ReportFile(rest, kd, least, best) ==
    IF rest = <<>>
    THEN << IF best # None THEN SummaryMsg(Val(best))
            ELSE NoValidGapMsg >>
    ELSE LET kpoint == Head(rest)
             values == kd[kpoint]
         IN IF Complete(values)
            THEN LET vbm == Val(values.vbm)
                     cbm == Val(values.cbm)
                     band_gap == BandGap(vbm, cbm)
                 IN <<KPointMsg(kpoint, vbm, cbm, band_gap)>>
                    \o (IF IsNewMinimum(band_gap, least)
                        THEN ReportFile(Tail(rest), kd, Some(band_gap),
                                        Some([kpoint |-> kpoint, vbm |-> vbm,
                                              cbm |-> cbm, gap |-> band_gap]))
                        ELSE ReportFile(Tail(rest), kd, least,
                                        best))
            ELSE <<IncompleteMsg(kpoint)>>
                 \o ReportFile(Tail(rest), kd, least, best)

\* what a call of parse_outcar wrote to outfile, and the exception that
\* left it ("" when it returned)
Parsed(written, raised) == [written |-> written, raised |-> raised]

\* mutant: only FileNotFoundError is caught
parse_outcar_NoCatchAll(w) ==
    IF w.raises = "FileNotFoundError" THEN Parsed(<<FileMissingMsg>>, "")
    ELSE IF w.raises # "" THEN Parsed(<<>>, w.raises)
    ELSE LET kd == ScanFile(w.lines, None, <<>>, 0)
         IN IF NoData(kd) THEN Parsed(<<NoDataMsg>>, "")
            ELSE Parsed(<<ResultsHeader>>
                        \o ReportFile(SortedSeq(DOMAIN kd), kd, None, None),
                        "")

\* parse_outcar(outcar_path, outfile) as one call
parse_outcar(w) ==
    IF w.raises = "FileNotFoundError" THEN Parsed(<<FileMissingMsg>>, "")
    ELSE IF w.raises # "" THEN Parsed(<<UnexpectedErrorMsg>>, "")
    ELSE LET kd == ScanFile(w.lines, None, <<>>, 0)
         IN IF NoData(kd) THEN Parsed(<<NoDataMsg>>, "")
            ELSE Parsed(<<ResultsHeader>>
                        \o ReportFile(SortedSeq(DOMAIN kd), kd, None, None),
                        "")

\* what one pass through the body of "for item in os.listdir" does: what it
\* writes to outfile, what the locator returned, whether parse_outcar was
\* called, and the exception that left the body
Item(written, located, parsed, raised) ==
    [written |-> written, located |-> located, parsed |-> parsed, raised |-> raised]

\* mutant: parse_outcar is called on sp/OUTCAR whatever the locator returned
ItemBody_NoLocatorCheck(w) ==
    IF ~w.isdir THEN Item(<<>>, None, FALSE, "")
    ELSE LET found == find_outcar_in_molecule_dir(w.layout)
             p == parse_outcar(w)
         IN Item(<<SectionHeader>> \o p.written, found, TRUE, p.raised)

\* the body of "for item in os.listdir(start_directory)"
ItemBody(w) ==
    IF ~w.isdir THEN Item(<<>>, None, FALSE, "")
    ELSE LET found == find_outcar_in_molecule_dir(w.layout)
         IN IF found # None
            THEN LET p == parse_outcar(w)
                 IN Item(<<SectionHeader>> \o p.written, found, TRUE, p.raised)
            ELSE Item(<<SectionHeader, NoOutcarMsg>>, found, FALSE, "")

BatchOff ==
    [pc |-> "off", items |-> 0, found_any_outcar |-> FALSE, item |-> NoWorld,
     last |-> Item(<<>>, None, FALSE, ""), final |-> ""]
BatchStart == [BatchOff EXCEPT !.pc = "listing"]

\* the next entry of os.listdir and the pass through the loop body for it
ProcessItem(w) ==
    /\ batch.pc = "listing"
    /\ batch.items < MaxItems
    /\ LET r == ItemBody(w)
       IN batch' =
             [batch EXCEPT !.pc = IF r.raised # "" THEN "aborted" ELSE "listing",
                           !.items = batch.items + 1,
                           !.found_any_outcar = batch.found_any_outcar \/ r.parsed,
                           !.item = w,
                           !.last = r]
    /\ UNCHANGED <<session, parserVars, locatorVars>>

\* os.listdir has no further entry: the closing message
FinishRun ==
    /\ batch.pc = "listing"
    /\ batch' =
          [batch EXCEPT !.pc = "finished",
                        !.final = IF ~batch.found_any_outcar
                                  THEN "No OUTCAR files were found"
                                  ELSE "All results have been saved"]
    /\ UNCHANGED <<session, parserVars, locatorVars>>

\* ---------------------------------------------------------- specifications
DriversOff == session = SessionOff /\ batch = BatchOff

ParserStart ==
    /\ pc = "scan"
    /\ nread = 0
    /\ current_kpoint = None
    /\ kpoint_data = <<>>
    /\ todo = <<>>
    /\ min_band_gap = None
    /\ min_gap_data = None
    /\ outfile = <<>>
    /\ hist = <<>>
    /\ fileinfo = NoLines

LocatorStart(ls) ==
    /\ layout \in ls
    /\ called = {}
    /\ outcar_file = None
    /\ sp_directory_path = None

\* parse_outcar on any file of at most MaxLines lines
Init == ParserStart /\ LocatorStart({EmptyLayout}) /\ called = {} /\ DriversOff
ParserNext ==
    \/ \E line \in Lines : ScanLine(line)
    \/ EndScan
    \/ ReportKPoint
    \/ WriteSummary
Next == ParserNext /\ UNCHANGED driverVars
Spec == Init /\ [][Next]_vars

\* the prompt loop of get_fermi.main on any inputs and directory trees
FermiInit ==
    /\ ParserStart
    /\ LocatorStart({EmptyLayout})
    /\ session \in { SessionStart(w) : w \in FermiWorlds }
    /\ batch = BatchOff
FermiNext == \E target_dir \in Inputs : Query(target_dir)
FermiSpec == FermiInit /\ [][FermiNext]_vars

\* the batch run of get_band_calc over any directory entries
BatchInit ==
    /\ ParserStart
    /\ LocatorStart({EmptyLayout})
    /\ session = SessionOff
    /\ batch = BatchStart
BatchNext == (\E w \in BatchWorlds : ProcessItem(w)) \/ FinishRun
BatchSpec == BatchInit /\ [][BatchNext]_vars

\* either pipeline: the prompt loop or the batch run
DriversInit == FermiInit \/ BatchInit
DriversNext == FermiNext \/ BatchNext
DriversSpec == DriversInit /\ [][DriversNext]_vars

\* the two locators on any directory tree
LocInit == ParserStart /\ LocatorStart(Layouts) /\ DriversOff
LocNext == (CallFindOutcar \/ CallFindSp) /\ UNCHANGED driverVars
LocSpec == LocInit /\ [][LocNext]_vars

\* ================================================================= claims
\* -- what the claims speak about --
Ids == DOMAIN kpoint_data
\* the k-points whose record has both values at the end of the scan
CompleteIds == { k \in Ids : kpoint_data[k].vbm # None /\ kpoint_data[k].cbm # None }
GapOf(k) == Val(kpoint_data[k].cbm) - Val(kpoint_data[k].vbm)
Least(S) == CHOOSE x \in S : \A y \in S : x <= y
MinGapIds == { k \in CompleteIds : \A j \in CompleteIds : GapOf(k) <= GapOf(j) }
Written == { outfile[i] : i \in 1..Len(outfile) }
KPointEntries(k) == { e \in Written : e.tag = "K-Point" /\ e.kpoint = k }
IncompleteEntries(k) == { e \in Written : e.tag = "Incomplete data" /\ e.kpoint = k }
SummaryEntries == { e \in Written : e.tag = "Minimum Band Gap found at K-Point" }
LastWritten == outfile[Len(outfile)]

\* C1: when the file has complete k-points, the summary written by
\* parse_outcar is the last thing written, its gap is the least gap
\* CBM - VBM over the complete k-points only, and among the k-points with
\* that least gap it names the one with the smallest id.
C1_MinimumGapSelection ==
    pc = "done" /\ CompleteIds # {} =>
        LET k == Least(MinGapIds)
        IN /\ SummaryEntries = {LastWritten}
           /\ LastWritten.kpoint = k
           /\ LastWritten.gap = Format4(GapOf(k))
           /\ LastWritten.vbm = Format4(Val(kpoint_data[k].vbm))
           /\ LastWritten.cbm = Format4(Val(kpoint_data[k].cbm))
           /\ \A j \in CompleteIds : GapOf(k) <= GapOf(j)

\* two complete k-points share the least gap and the summary names id 1
C1_Witness ==
    /\ pc = "done"
    /\ CompleteIds = {1, 2}
    /\ GapOf(1) = GapOf(2)
    /\ kpoint_data[1] # kpoint_data[2]
    /\ LastWritten.kpoint = 1

\* C2: at every moment of the scan the VBM of a k-point's record is the
\* energy of the last positive-occupation band line of its block (unset
\* when the block has none), so each later positive-occupation line
\* overwrites the earlier value, also after the CBM has been set.
C2_VbmIsLastOccupied ==
    \A k \in Ids : kpoint_data[k].vbm = hist[k].lastPos

\* a positive-occupation line came after the CBM was set and replaced a
\* different VBM: the record's VBM now lies above its CBM's line
C2_Witness ==
    \E k \in Ids :
        /\ hist[k].posAfterZero
        /\ hist[k].nPos >= 2
        /\ kpoint_data[k].cbm # None
        /\ kpoint_data[k].vbm # None
        /\ Val(kpoint_data[k].vbm) > Val(kpoint_data[k].cbm)
        /\ pc = "done"

\* a step leaves the CBM of every record that has one as it is (a record is
\* the dict made by a header line; the same ref is the same dict)
CbmKeptByStep ==
    \A k \in Ids :
        kpoint_data[k].cbm # None /\ k \in DOMAIN kpoint_data'
        /\ kpoint_data'[k].ref = kpoint_data[k].ref
        => kpoint_data'[k].cbm = kpoint_data[k].cbm
\* a CBM is the first zero-occupation line after a positive-occupation one
CbmIsFirstZeroAfterOccupied ==
    \A k \in Ids : kpoint_data[k].cbm # None => kpoint_data[k].cbm = hist[k].zeroAfterPos

\* C3: once the CBM of a record is set no later line changes it, and it is
\* the energy of the first zero-occupation band line that follows a
\* positive-occupation line of the record's block.
C3_CbmNeverOverwritten == [][CbmKeptByStep]_vars /\ []CbmIsFirstZeroAfterOccupied

\* a second zero-occupation line with another energy was read after the
\* CBM had been set, and the CBM is still the first one
C3_Witness ==
    \E k \in Ids :
        /\ hist[k].laterZero # None
        /\ hist[k].laterZero # hist[k].zeroAfterPos
        /\ kpoint_data[k].cbm = hist[k].zeroAfterPos

\* C4 as stated: within one block the VBM is assigned at most once and the
\* CBM is assigned at most once.
C4_AssignedAtMostOnce_Original ==
    \A k \in Ids : hist[k].vbmWrites <= 1 /\ hist[k].cbmWrites <= 1

\* C4 (amended): within one block the CBM is assigned at most once; the VBM
\* is assigned once for every positive-occupation band line of the block,
\* so possibly several times.
C4_CbmOnceVbmPerOccupiedLine ==
    \A k \in Ids :
        /\ hist[k].cbmWrites <= 1
        /\ hist[k].vbmWrites = hist[k].nPos

\* a block in which the VBM was assigned three times and the CBM once,
\* with further zero-occupation lines after it
C4_Witness ==
    \E k \in Ids :
        /\ hist[k].vbmWrites = 3
        /\ hist[k].cbmWrites = 1
        /\ hist[k].laterZero # None

\* C5: a k-point whose block holds a positive-occupation band line followed
\* later by a zero-occupation band line is reported as complete, and the gap
\* reported for it is CBM - VBM of its record to 4 decimals.
C5_CompleteBlockGap ==
    pc = "done" =>
        \A k \in Ids :
            hist[k].zeroAfterPos # None =>
                /\ IncompleteEntries(k) = {}
                /\ Cardinality(KPointEntries(k)) = 1
                /\ \A e \in KPointEntries(k) :
                      /\ e.gap = Format4(Val(kpoint_data[k].cbm) - Val(kpoint_data[k].vbm))
                      /\ e.vbm = Format4(Val(hist[k].lastPos))
                      /\ e.cbm = Format4(Val(hist[k].zeroAfterPos))

\* such a k-point was reported, with a gap that is not the difference of
\* the two rounded energies printed next to it
C5_Witness ==
    /\ pc = "done"
    /\ \E k \in Ids :
          /\ hist[k].zeroAfterPos # None
          /\ \E e \in KPointEntries(k) : e.gap # e.cbm - e.vbm

\* the file is exactly the three lines of the example and has been reported
ExampleParsed == pc = "done" /\ fileinfo.isExample /\ nread = Len(ExampleFile)

\* C6 as stated: the example yields VBM = -5.1234, CBM = 0.8765 and
\* gap = 1.9999.
C6_Example_Original ==
    ExampleParsed =>
        /\ kpoint_data[1].vbm = Some(-512340)
        /\ kpoint_data[1].cbm = Some(87650)
        /\ KPointEntries(1) = { Entry("K-Point", 1, -51234, 8765, 19999) }

\* C6 (amended): the example yields VBM = -5.1234, CBM = 0.8765 and
\* gap = 5.9999, in the k-point's entry and in the summary.
C6_Example ==
    ExampleParsed =>
        /\ kpoint_data[1].vbm = Some(-512340)
        /\ kpoint_data[1].cbm = Some(87650)
        /\ KPointEntries(1) = { Entry("K-Point", 1, -51234, 8765, 59999) }
        /\ LastWritten =
              Entry("Minimum Band Gap found at K-Point", 1, -51234, 8765, 59999)

C6_Witness == ExampleParsed /\ Len(outfile) = 3

\* C7: a zero-occupation band line that comes before any positive-occupation
\* line of its block does not set the CBM; the CBM is unset as long as no
\* zero-occupation line has followed a positive-occupation line.
C7_ZeroBeforeOccupied ==
    \A k \in Ids :
        /\ hist[k].nPos = 0 => kpoint_data[k].cbm = None
        /\ hist[k].zeroAfterPos = None => kpoint_data[k].cbm = None

\* a block that began with a zero-occupation line, then had a
\* positive-occupation line, and whose CBM is still unset
C7_Witness ==
    \E k \in Ids :
        /\ hist[k].zeroBeforePos
        /\ hist[k].nPos > 0
        /\ kpoint_data[k].vbm # None
        /\ kpoint_data[k].cbm = None

\* C8: a k-point whose block has only positive-occupation band lines has no
\* CBM; it is written as 'Incomplete data' and neither gets a K-Point entry
\* nor is named in the summary.
C8_AllOccupiedIncomplete ==
    \A k \in Ids :
        ~hist[k].nonPos =>
            /\ kpoint_data[k].cbm = None
            /\ pc = "done" =>
                  /\ IncompleteEntries(k) = {IncompleteMsg(k)}
                  /\ KPointEntries(k) = {}
                  /\ \A e \in SummaryEntries : e.kpoint # k

\* an all-occupied k-point next to a complete one that the summary names
C8_Witness ==
    /\ pc = "done"
    /\ \E k \in Ids :
          /\ ~hist[k].nonPos
          /\ hist[k].nPos >= 2
          /\ IncompleteEntries(k) # {}
          /\ \E e \in SummaryEntries : e.kpoint # k

\* C9: as long as no header line has been read no record exists and no
\* current k-point is set, whatever band lines were read; for a file
\* without header line the only thing written is the 'No k-point data was
\* extracted' message.
C9_NoHeaderNoData ==
    fileinfo.headers = 0 =>
        /\ Ids = {}
        /\ current_kpoint = None
        /\ pc # "report"
        /\ pc = "done" => outfile = <<NoDataMsg>>

\* a file of band lines and other lines only
C9_Witness ==
    /\ pc = "done"
    /\ fileinfo.headers = 0
    /\ fileinfo.bandsBeforeHeader >= 2
    /\ nread > fileinfo.bandsBeforeHeader

\* both root/sp and root/restart/sp exist as directories
BothSpDirs == IsDir(layout, <<"sp">>) /\ IsDir(layout, <<"restart", "sp">>)

\* C10: when both root/sp and root/restart/sp are directories, each locator
\* resolves to the direct location (find_outcar_in_molecule_dir to the
\* OUTCAR path inside root/sp, find_sp_directory to root/sp) and never to
\* root/restart/sp, with or without an OUTCAR file in root/sp.
C10_DirectSpPriority ==
    BothSpDirs =>
        /\ "find_outcar_in_molecule_dir" \in called =>
              outcar_file = Some(<<"sp", "OUTCAR">>)
        /\ "find_sp_directory" \in called =>
              sp_directory_path = Some(<<"sp">>)

\* a step changes no record but the one of the id of the last header line
\* (a record is the dict made by a header line; the same ref is the same dict)
OnlyCurrentRecordChanges ==
    \A k \in Ids :
        /\ k \in DOMAIN kpoint_data'
        /\ kpoint_data'[k].ref = kpoint_data[k].ref
        /\ fileinfo'.lastId # Some(k)
        => kpoint_data'[k] = kpoint_data[k]
\* after the end of the file no record changes
RecordsFinalAfterScan == pc # "scan" => kpoint_data' = kpoint_data

\* C17: a band line changes only the record of the current k-point id; once
\* the scan has moved on to a later header, or reached the end of the file,
\* no later line or step changes the VBM or CBM of an earlier record.
C17_RecordReadOnlyAfterBlock ==
    [][OnlyCurrentRecordChanges /\ RecordsFinalAfterScan]_vars

\* the record of k-point 1 is populated, the scan has moved on to k-point 2
\* and has read band lines of both kinds there
C17_Witness ==
    /\ Ids = {1, 2}
    /\ fileinfo.lastId = Some(2)
    /\ kpoint_data[1].ref < kpoint_data[2].ref
    /\ kpoint_data[1].vbm # None
    /\ kpoint_data[1].cbm = None
    /\ kpoint_data[2].cbm # None
    /\ kpoint_data[2].vbm # kpoint_data[1].vbm

C19_CbmImpliesVbm ==
    \A k \in Ids :
        /\ kpoint_data[k].cbm # None => kpoint_data[k].vbm # None
        /\ IncompleteEntries(k) # {} => kpoint_data[k].cbm = None

\* a k-point whose block began with a zero-occupation line was written as
\* incomplete with only its VBM set
C19_Witness ==
    \E k \in Ids :
        /\ pc = "done"
        /\ hist[k].zeroBeforePos
        /\ IncompleteEntries(k) # {}
        /\ kpoint_data[k].vbm # None
        /\ kpoint_data[k].cbm = None

\* ------------------------------------------------------- claims on get_fermi
\* the value written on a line of GoodFermiLines, in units of 10^-5
WrittenValue(line) ==
    IF line = FermiExampleLine THEN 0 - 124060
    ELSE IF line = FermiZeroLine THEN 0
    ELSE 300000
\* the lines of the OUTCAR file in the working directory's "molecule"
FermiFile == session.cwd.lines
GoodAt == { i \in 1..Len(FermiFile) : FermiFile[i] \in GoodFermiLines }
BadAt == { i \in 1..Len(FermiFile) : FermiFile[i] \in BadFermiLines }
\* the OUTCAR file the query is led to: sp/OUTCAR when sp is a directory,
\* restart/sp/OUTCAR otherwise
LedToOutcar ==
    LET l == session.cwd.layout
    IN IF l[<<"sp">>] = "dir" THEN l[<<"sp", "OUTCAR">>] = "file"
       ELSE l[<<"restart", "sp">>] = "dir" /\ l[<<"restart", "sp", "OUTCAR">>] = "file"
LedToSp ==
    session.cwd.layout[<<"sp">>] = "dir"
    \/ session.cwd.layout[<<"restart", "sp">>] = "dir"
\* the last query named the directory
Asked == session.queries > 0 /\ session.input = "molecule" /\ session.cwd.isdir
\* the last query read the lines of an OUTCAR file
Scanned == Asked /\ LedToOutcar /\ session.cwd.raises = ""
WarningsPrinted ==
    Cardinality({ i \in 1..Len(session.last.printed) :
                    session.last.printed[i] = WarningLine })

FirstMatchReturned ==
    Scanned /\ GoodAt # {} =>
        /\ session.last.value = Some(WrittenValue(FermiFile[Least(GoodAt)]))
        /\ WarningsPrinted = Cardinality({ i \in BadAt : i < Least(GoodAt) })
SameFileSameResult ==
    Scanned /\ Scanned' /\ session.cwd' = session.cwd =>
        session.last.value' = session.last.value

\* C12: extract_fermi_energy returns the value of the first line from which
\* a value can be read and reads no further (lines after it give no
\* warning); a second extraction from the same file gives the same result
C12_FirstMatchWins ==
    [][FirstMatchReturned' /\ SameFileSameResult]_vars

C12_Witness ==
    /\ Scanned
    /\ session.queries = 2
    /\ Len(FermiFile) = 3
    /\ FermiFile[1] = FermiExampleLine
    /\ FermiFile[2] \in BadFermiLines
    /\ FermiFile[3] = FermiZeroLine
    /\ session.last.value = Some(WrittenValue(FermiExampleLine))
    /\ WarningsPrinted = 0

\* C13: an E-fermi line without a ':' token, or whose token after the first
\* ':' is missing or no number, is passed over and the scan goes on; the
\* result is absent exactly when no line of the file yields a value
C13_MalformedLineSkipped ==
    Scanned =>
        /\ session.last.value = None <=> GoodAt = {}
        /\ GoodAt = {} => WarningsPrinted = Cardinality(BadAt)
        /\ \A i \in BadAt : (\E j \in GoodAt : i < j) => session.last.value # None

C13_Witness ==
    /\ Scanned
    /\ Len(FermiFile) = 3
    /\ FermiFile[1] = <<EFermiGlued, DecTok(TRUE, 124060)>>
    /\ FermiFile[2] = <<EFermi, Colon>>
    /\ FermiFile[3] = FermiIntLine
    /\ session.last.value = Some(WrittenValue(FermiIntLine))
    /\ WarningsPrinted = 2

\* the last line typed was a directory name, not quit
NonQuitQuery ==
    session.queries > 0 /\ session.input \notin {"quit", "QUIT", "Quit"}
\* the lines extract_fermi_energy prints before main prints its own
ExtractorLines ==
    IF ~(Asked /\ LedToSp) THEN 0
    ELSE IF ~LedToOutcar THEN 1
    ELSE IF session.cwd.raises # "" THEN 1
    ELSE IF GoodAt = {} THEN Cardinality(BadAt)
    ELSE Cardinality({ i \in BadAt : i < Least(GoodAt) })
MainLines ==
    { DirNotFoundLine, NoSpLine, NoFermiLine }
    \cup { ResultLine(Some(WrittenValue(line))) : line \in GoodFermiLines }

C15_OnlyQuitEndsLoop ==
    session.queries > 0 =>
        /\ session.pc = "exited" <=> session.input \in {"quit", "QUIT", "Quit"}
        /\ session.pc # "exited" => session.pc = "prompt"
        /\ session.pc = "exited" => session.last.printed = <<GoodbyeLine>>

C15_Witness ==
    /\ session.queries = 2
    /\ session.pc = "prompt"
    /\ session.input = "molecule"
    /\ session.last.printed = <<NoSpLine>>

\* --------------------------------------------------- claims on the drivers
\* neither root/sp nor root/restart/sp is a directory
NeitherSp(l) == l[<<"sp">>] # "dir" /\ l[<<"restart", "sp">>] # "dir"
\* the last entry of the listing was a directory
ItemIsDir == batch.items > 0 /\ batch.item.isdir
ResultTags == {"K-Point", "Incomplete data"}
\* a results section of parse_outcar: the heading, one entry per k-point,
\* the summary
IsResults(written) ==
    /\ Len(written) >= 3
    /\ written[1] = ResultsHeader
    /\ \A i \in 2..(Len(written) - 1) : written[i].tag \in ResultTags
    /\ written[Len(written)].tag \in {"Minimum Band Gap found at K-Point", NoValidGapMsg.tag}
Diagnostics == {NoOutcarMsg, FileMissingMsg, UnexpectedErrorMsg, NoDataMsg}

\* C11: when neither root/sp nor root/restart/sp is a directory both
\* locators return the absent result, and each driver reports that nothing
\* was found without calling the extractor or the parser
C11_NothingFoundReported ==
    /\ Asked /\ NeitherSp(session.cwd.layout) =>
          /\ find_sp_directory(session.cwd.layout) = None
          /\ ~session.last.extractor
          /\ session.last.printed = <<NoSpLine>>
    /\ ItemIsDir /\ NeitherSp(batch.item.layout) =>
          /\ batch.last.located = None
          /\ ~batch.last.parsed
          /\ batch.last.written = <<SectionHeader, NoOutcarMsg>>

C11_Witness ==
    /\ ItemIsDir
    /\ batch.item.layout[<<"sp">>] = "file"
    /\ batch.item.layout[<<"restart">>] = "dir"
    /\ batch.item.layout[<<"restart", "sp">>] = "absent"
    /\ batch.last.written = <<SectionHeader, NoOutcarMsg>>
    /\ ~batch.last.parsed

\* C16: no failure stops the batch run, and every directory of the listing
\* gets its section header followed by a results section or by one
\* diagnostic; an entry that is no directory gets nothing
C16_EveryDirectoryGetsSection ==
    batch.items > 0 =>
        /\ batch.pc \in {"listing", "finished"}
        /\ batch.last.raised = ""
        /\ ~batch.item.isdir => batch.last.written = <<>>
        /\ batch.item.isdir =>
              /\ Len(batch.last.written) >= 2
              /\ Head(batch.last.written) = SectionHeader
              /\ \/ IsResults(Tail(batch.last.written))
                 \/ /\ Len(batch.last.written) = 2
                    /\ batch.last.written[2] \in Diagnostics
              /\ ~HasOutcar(batch.item.layout) => batch.last.written[2] = NoOutcarMsg
              /\ batch.item.raises = "FileNotFoundError" =>
                    batch.last.written[2] = FileMissingMsg
              /\ batch.item.raises = "OSError" =>
                    batch.last.written[2] = UnexpectedErrorMsg

C16_Witness ==
    /\ batch.pc = "finished"
    /\ batch.items = 2
    /\ batch.item.raises = "OSError"
    /\ batch.last.written = <<SectionHeader, UnexpectedErrorMsg>>
    /\ batch.found_any_outcar

====
